---- MODULE Spec2Model ----
(***************************************************************************)
(* Model of the bgmi vote/bet API server (src/unnamed/part_000, the gated  *)
(* revision of src/server.js): the connection-status record and its retry  *)
(* loop, the requireDB gate, the POST /api/votes and POST /api/bets        *)
(* handlers with the store's unique index, the totals aggregation and the  *)
(* limit computation of the recent listings.                               *)
(*                                                                         *)
(* JavaScript values are tagged records; strings are sequences of          *)
(* one-character strings so that trim, String(), Number() and parseInt()   *)
(* are computed the way the engine computes them.                          *)
(***************************************************************************)
EXTENDS Integers, Sequences, FiniteSets, Bags, TLC

VARIABLES dbState, listening, attempts, timers, reachable, retries,
          votes, bets, inflight, lastResp

vars == <<dbState, listening, attempts, timers, reachable, retries,
          votes, bets, inflight, lastResp>>


\* ------------------------------------------------------------ bounds
\* Number of POST requests that may be awaiting the store at the same time.
MaxInFlight == 2
\* The count of consecutive failed connection attempts saturates here.
MaxRetries == 6

\* ------------------------------------------------------- JS values
Undefined == [t |-> "undefined"]
Null      == [t |-> "null"]
NaN       == [t |-> "nan"]
Bool(b)   == [t |-> "boolean", b |-> b]
Num(n)    == [t |-> "number", n |-> n]
Str(s)    == [t |-> "string", s |-> s]
Arr(a)    == [t |-> "array", a |-> a]
Obj       == [t |-> "object"]

player1 == <<"p", "l", "a", "y", "e", "r", "1">>
player2 == <<"p", "l", "a", "y", "e", "r", "2">>
player3 == <<"p", "l", "a", "y", "e", "r", "3">>

Digits == <<"0", "1", "2", "3", "4", "5", "6", "7", "8", "9">>
IsDigit(c) == \E i \in 1..10 : Digits[i] = c
DigitVal(c) == (CHOOSE i \in 1..10 : Digits[i] = c) - 1
IsSpace(c) == c \in {" ", "\t", "\n"}

\* String.prototype.trim
RECURSIVE TrimStart(_)
TrimStart(s) ==
  IF s # <<>> /\ IsSpace(Head(s)) THEN TrimStart(Tail(s)) ELSE s
RECURSIVE TrimEnd(_)
TrimEnd(s) ==
  IF s # <<>> /\ IsSpace(s[Len(s)]) THEN TrimEnd(SubSeq(s, 1, Len(s) - 1)) ELSE s
Trim(s) == TrimEnd(TrimStart(s))

\* decimal digits of a natural number
RECURSIVE NatToChars(_)
NatToChars(n) ==
  IF n < 10 THEN <<Digits[n + 1]>>
  ELSE NatToChars(n \div 10) \o <<Digits[(n % 10) + 1]>>

\* String(v): ToString of a JSON-decoded value
RECURSIVE ToStr(_)
RECURSIVE Join(_)
Join(a) ==
  IF a = <<>> THEN <<>>
  ELSE LET h == IF Head(a).t \in {"undefined", "null"} THEN <<>> ELSE ToStr(Head(a))
       IN IF Len(a) = 1 THEN h ELSE h \o <<",">> \o Join(Tail(a))
ToStr(v) ==
  CASE v.t = "string"    -> v.s
    [] v.t = "number"    -> IF v.n < 0 THEN <<"-">> \o NatToChars(-v.n) ELSE NatToChars(v.n)
    [] v.t = "boolean"   -> IF v.b THEN <<"t", "r", "u", "e">> ELSE <<"f", "a", "l", "s", "e">>
    [] v.t = "undefined" -> <<"u", "n", "d", "e", "f", "i", "n", "e", "d">>
    [] v.t = "null"      -> <<"n", "u", "l", "l">>
    [] v.t = "nan"       -> <<"N", "a", "N">>
    [] v.t = "array"     -> Join(v.a)
    [] v.t = "object"    -> <<"[", "o", "b", "j", "e", "c", "t", " ", "O", "b", "j", "e", "c", "t", "]">>

\* value of a non-empty sequence of digits
RECURSIVE DigitsVal(_)
DigitsVal(s) ==
  IF Len(s) = 1 THEN DigitVal(s[1])
  ELSE 10 * DigitsVal(SubSeq(s, 1, Len(s) - 1)) + DigitVal(s[Len(s)])
AllDigits(s) == s # <<>> /\ \A i \in 1..Len(s) : IsDigit(s[i])

\* StringToNumber on the integer literals the model uses
StrToNumber(s) ==
  LET u == Trim(s) IN
  IF u = <<>> THEN Num(0)
  ELSE IF AllDigits(u) THEN Num(DigitsVal(u))
  ELSE IF Head(u) \in {"-", "+"} /\ AllDigits(Tail(u))
       THEN Num(IF Head(u) = "-" THEN -DigitsVal(Tail(u)) ELSE DigitsVal(Tail(u)))
  ELSE NaN

\* Number(v): ToNumber
ToNumber(v) ==
  CASE v.t = "number"    -> v
    [] v.t = "nan"       -> NaN
    [] v.t = "undefined" -> NaN
    [] v.t = "null"      -> Num(0)
    [] v.t = "boolean"   -> IF v.b THEN Num(1) ELSE Num(0)
    [] v.t = "string"    -> StrToNumber(v.s)
    [] v.t = "array"     -> StrToNumber(ToStr(v))
    [] v.t = "object"    -> NaN

\* ToBoolean: what !v and v || d test
Truthy(v) ==
  CASE v.t = "undefined" -> FALSE
    [] v.t = "null"      -> FALSE
    [] v.t = "nan"       -> FALSE
    [] v.t = "boolean"   -> v.b
    [] v.t = "number"    -> v.n # 0
    [] v.t = "string"    -> v.s # <<>>
    [] v.t = "array"     -> TRUE
    [] v.t = "object"    -> TRUE

\* x > 0 on a ToNumber result (any comparison with NaN is false)
GreaterThanZero(x) == x.t = "number" /\ x.n > 0

\* the longest prefix of digits
RECURSIVE DigitPrefix(_)
DigitPrefix(s) ==
  IF s # <<>> /\ IsDigit(Head(s)) THEN <<Head(s)>> \o DigitPrefix(Tail(s)) ELSE <<>>

\* parseInt(v): String(v), leading whitespace skipped, a sign, the digit prefix
ParseInt(v) ==
  LET u == TrimStart(ToStr(v))
      neg == u # <<>> /\ Head(u) = "-"
      body == IF u # <<>> /\ Head(u) \in {"-", "+"} THEN Tail(u) ELSE u
      d == DigitPrefix(body)
  IN IF d = <<>> THEN NaN
     ELSE Num(IF neg THEN -DigitsVal(d) ELSE DigitsVal(d))

MathMin(a, b) == IF a < b THEN a ELSE b

\* Array.prototype.includes on ["player1", "player2"]: strict equality
Includes(v) == v.t = "string" /\ v.s \in {player1, player2}

\* x || d
OrDefault(x, d) == IF Truthy(x) THEN x ELSE d

\* ------------------------------------------------------- inputs
NameInputs ==
  {Undefined, Null, Num(0), Str(<<>>), Str(<<" ">>), Str(<<"a">>),
   Str(<<" ", "a", " ">>), Str(<<"b">>)}
BetNameInputs ==
  {Undefined, Str(<<>>), Str(<<" ">>), Str(<<"a">>), Str(<<" ", "a", " ">>)}
OptionInputs == {Undefined, Str(player1), Str(player2), Str(player3)}
AmountInputs ==
  {Undefined, Null, Bool(TRUE), Bool(FALSE), Num(0), Num(-1), Num(2),
   Str(<<"2">>), Str(<<"-", "1">>), Str(<<"a", "b", "c">>), Str(<<>>),
   Arr(<<>>), Arr(<<Num(2)>>), Arr(<<Num(1), Num(2)>>), Obj}
LimitInputs ==
  {Undefined, Str(<<"a", "b", "c">>), Str(<<"0">>), Str(<<"-", "5">>),
   Str(<<"1">>), Str(<<"5", "0", "0">>), Str(<<"5", "0", "1">>),
   Str(<<"9", "9", "9", "9">>), Str(<<"1", "2", "a", "b">>), Str(<<" ", "7">>)}
UserInputs == {<<" ", "a">>, <<"b">>}

\* every name with a plain option, every option with a plain name, and the payloads
\* that pass the handler's check
VotePayloads ==
  {p : p \in
     [voterName : NameInputs, votedFor : {Str(player1)}]
       \cup [voterName : {Str(<<"a">>)}, votedFor : OptionInputs]
       \cup [voterName : {Str(<<"a">>), Str(<<" ", "a", " ">>), Str(<<"b">>)},
             votedFor : {Str(player1), Str(player2)}]}
\* the same for bets, and every amount with a plain name and option
BetPayloads ==
  {p : p \in
     [betterName : BetNameInputs, betOn : {Str(player1)}, amount : {Num(2)}]
       \cup [betterName : {Str(<<"a">>)}, betOn : OptionInputs, amount : {Num(2)}]
       \cup [betterName : {Str(<<"a">>)}, betOn : {Str(player1)}, amount : AmountInputs]
       \cup [betterName : {Str(<<" ", "a", " ">>)}, betOn : {Str(player2)},
             amount : {Bool(TRUE), Num(2)}]}

\* ------------------------------------------------------- connection
None == "null"
DefaultBackoffMs == 5000
MaxBackoffMs == 60000
ConnectError == "connect failed"

NextBackoff_triple(backoffMs) == MathMin(backoffMs * 3, MaxBackoffMs)
\* Math.min(backoffMs * 2, 60000)
NextBackoff(backoffMs) == MathMin(backoffMs * 2, MaxBackoffMs)

\* setTimeout(() => connectMongo(next), delay)
Timer(backoffMs) == [delay |-> backoffMs, next |-> NextBackoff(backoffMs)]

NoResp == [route |-> "none", status |-> 0, body |-> [none |-> TRUE]]

\* attempts: the backoffMs of every mongoose.connect call not yet settled;
\* timers: every retry timer armed and not yet fired.
Init ==
  /\ dbState = [status |-> "init", error |-> None]
  /\ listening = FALSE
  /\ attempts = EmptyBag
  /\ timers = EmptyBag
  /\ reachable \in BOOLEAN
  /\ retries = 0
  /\ votes = {}
  /\ bets = {}
  /\ inflight = EmptyBag
  /\ lastResp = NoResp

\* the synchronous head of connectMongo(backoffMs): status "connecting", connect issued
ConnectMongo(backoffMs) ==
  /\ dbState' = [status |-> "connecting", error |-> None]
  /\ attempts' = attempts (+) SetToBag({backoffMs})

\* module load: connectMongo() is kicked off, then the listener is opened
Startup ==
  /\ ~listening
  /\ ConnectMongo(DefaultBackoffMs)
  /\ listening' = TRUE
  /\ UNCHANGED <<timers, reachable, retries, votes, bets, inflight, lastResp>>

ConnectOk_retry(backoffMs) ==
  /\ BagIn(backoffMs, attempts)
  /\ reachable
  /\ dbState' = [status |-> "ok", error |-> None]
  /\ attempts' = attempts (-) SetToBag({backoffMs})
  /\ timers' = timers (+) SetToBag({Timer(backoffMs)})
  /\ retries' = 0
  /\ UNCHANGED <<listening, reachable, votes, bets, inflight, lastResp>>
\* mongoose.connect resolves: status "ok"
ConnectOk(backoffMs) ==
  /\ BagIn(backoffMs, attempts)
  /\ reachable
  /\ dbState' = [status |-> "ok", error |-> None]
  /\ attempts' = attempts (-) SetToBag({backoffMs})
  /\ retries' = 0
  /\ UNCHANGED <<listening, timers, reachable, votes, bets, inflight, lastResp>>

\* mongoose.connect rejects: status "error", one retry timer armed
ConnectFail(backoffMs) ==
  /\ BagIn(backoffMs, attempts)
  /\ ~reachable
  /\ dbState' = [status |-> "error", error |-> ConnectError]
  /\ attempts' = attempts (-) SetToBag({backoffMs})
  /\ timers' = timers (+) SetToBag({Timer(backoffMs)})
  /\ retries' = IF retries < MaxRetries THEN retries + 1 ELSE retries
  /\ UNCHANGED <<listening, reachable, votes, bets, inflight, lastResp>>

\* a retry timer fires: connectMongo(next)
TimerFire(t) ==
  /\ BagIn(t, timers)
  /\ ConnectMongo(t.next)
  /\ timers' = timers (-) SetToBag({t})
  /\ UNCHANGED <<listening, reachable, retries, votes, bets, inflight, lastResp>>

\* the store becomes reachable or unreachable while no connection is established
EnvChange ==
  /\ dbState.status # "ok"
  /\ reachable' = ~reachable
  /\ UNCHANGED <<dbState, listening, attempts, timers, retries, votes, bets, inflight, lastResp>>

\* ------------------------------------------------------- store
\* Records carry seq, the insertion order (_id and timestamp order).
VoteRecord(doc) ==
  [seq |-> Cardinality(votes) + 1, voterName |-> doc.voterName, votedFor |-> doc.votedFor]
BetRecord(doc) ==
  [seq |-> Cardinality(bets) + 1, betterName |-> doc.betterName,
   amount |-> doc.amount, betOn |-> doc.betOn]

DuplicateVoter_noindex(name) == FALSE
\* unique index on voterName: the insert is refused with code 11000
DuplicateVoter(name) == \E v \in votes : v.voterName = name
\* unique index on betterName
DuplicateBetter(name) == \E b \in bets : b.betterName = name

\* schema checks mongoose runs in create() before the insert is sent
VoteSchemaValid(doc) ==
  /\ doc.voterName # <<>>
  /\ doc.votedFor \in {player1, player2}
BetSchemaValid(doc) ==
  /\ doc.betterName # <<>>
  /\ doc.betOn \in {player1, player2}
  /\ doc.amount >= 0

\* $group by votedFor, $sum 1: one row per option that has records
VoteRows ==
  {[id |-> o, count |-> Cardinality({v \in votes : v.votedFor = o})] :
     o \in {v.votedFor : v \in votes}}
RECURSIVE SumAmounts(_)
SumAmounts(S) ==
  IF S = {} THEN 0
  ELSE LET b == CHOOSE x \in S : TRUE IN b.amount + SumAmounts(S \ {b})
\* $group by betOn, $sum amount
BetRows ==
  {[id |-> o, sum |-> SumAmounts({b \in bets : b.betOn = o})] :
     o \in {b.betOn : b \in bets}}

\* m.player1 || 0 on Object.fromEntries(rows)
CountOf_offByOne(rows, o) ==
  IF \E r \in rows : r.id = o THEN (CHOOSE r \in rows : r.id = o).count - 1 ELSE 0
CountOf(rows, o) ==
  IF \E r \in rows : r.id = o /\ r.count # 0
  THEN (CHOOSE r \in rows : r.id = o).count ELSE 0
SumOf(rows, o) ==
  IF \E r \in rows : r.id = o /\ r.sum # 0
  THEN (CHOOSE r \in rows : r.id = o).sum ELSE 0

getVoteTotals ==
  [player1Votes |-> CountOf(VoteRows, player1), player2Votes |-> CountOf(VoteRows, player2)]
getBetTotals ==
  [player1Bets |-> SumOf(BetRows, player1), player2Bets |-> SumOf(BetRows, player2)]

\* ------------------------------------------------------- handlers
DuplicateKey == "E11000"
OtherError == "other"
ErrorStatus_generic(code) == 500
\* the catch block: e.code === 11000 is answered 409, anything else 500
ErrorStatus(code) == IF code = DuplicateKey THEN 409 ELSE 500
Resp(route, status, body) == [route |-> route, status |-> status, body |-> body]
\* a request handed to the store, no response yet
Forwarded(route) == Resp(route, 0, [forwarded |-> TRUE])

RequireDB_errorOnly == dbState.status # "error"
\* requireDB lets the request through
RequireDB == dbState.status = "ok"
NotReady(route) == Resp(route, 503, [error |-> "DB not ready", db |-> dbState])

Respond(r) ==
  /\ lastResp' = r
  /\ UNCHANGED <<dbState, listening, attempts, timers, reachable, retries, votes, bets, inflight>>

\* GET /api/health
Health ==
  /\ listening
  /\ Respond(Resp("health", 200, [ok |-> TRUE, db |-> dbState]))

\* GET /api/votes/totals
GetVoteTotals ==
  /\ listening
  /\ Respond(IF RequireDB THEN Resp("voteTotals", 200, getVoteTotals)
             ELSE NotReady("voteTotals"))

\* GET /api/bets/totals
GetBetTotals ==
  /\ listening
  /\ Respond(IF RequireDB THEN Resp("betTotals", 200, getBetTotals)
             ELSE NotReady("betTotals"))

\* Math.min(parseInt(req.query.limit) || 100, 500)
Limit(q) == MathMin(OrDefault(ParseInt(q), Num(100)).n, 500)

\* the seq values of a collection, newest first
RECURSIVE NewestFirst(_)
NewestFirst(S) ==
  IF S = {} THEN <<>>
  ELSE LET m == CHOOSE x \in S : \A y \in S : y.seq <= x.seq
       IN <<m>> \o NewestFirst(S \ {m})
\* .limit(n): the first n rows; the driver sends a negative n as its absolute value
Take(rows, n) ==
  LET k == IF n < 0 THEN -n ELSE n
  IN IF k = 0 \/ k >= Len(rows) THEN rows ELSE SubSeq(rows, 1, k)

\* GET /api/votes/recent
GetVotesRecent(q) ==
  /\ listening
  /\ Respond(IF RequireDB
             THEN Resp("votesRecent", 200,
                       [limit |-> Limit(q),
                        rows |-> Take([i \in 1..Cardinality(votes) |->
                                        [voterName |-> NewestFirst(votes)[i].voterName,
                                         votedFor |-> NewestFirst(votes)[i].votedFor]],
                                      Limit(q))])
             ELSE NotReady("votesRecent"))

\* GET /api/bets/recent
GetBetsRecent(q) ==
  /\ listening
  /\ Respond(IF RequireDB
             THEN Resp("betsRecent", 200,
                       [limit |-> Limit(q),
                        rows |-> Take([i \in 1..Cardinality(bets) |->
                                        [betterName |-> NewestFirst(bets)[i].betterName,
                                         amount |-> NewestFirst(bets)[i].amount,
                                         betOn |-> NewestFirst(bets)[i].betOn]],
                                      Limit(q))])
             ELSE NotReady("betsRecent"))

\* GET /api/users/:name (the two findOne reads are taken in one step)
GetUser(param) ==
  /\ listening
  /\ LET name == Trim(param)
         vs == {v \in votes : v.voterName = name}
         bs == {b \in bets : b.betterName = name}
         vote == CHOOSE v \in vs : \A w \in vs : v.seq <= w.seq
         bet == CHOOSE b \in bs : \A w \in bs : b.seq <= w.seq
     IN Respond(IF RequireDB
                THEN Resp("users", 200,
                          [hasVoted |-> IF vs # {} THEN Str(vote.votedFor) ELSE Null,
                           hasBet |-> IF bs # {} THEN Str(bet.betOn) ELSE Null,
                           userVotes |-> IF vs # {}
                                         THEN <<[voterName |-> vote.voterName,
                                                 votedFor |-> vote.votedFor]>>
                                         ELSE <<>>,
                           userBets |-> IF bs # {}
                                        THEN <<[betterName |-> bet.betterName,
                                                amount |-> bet.amount,
                                                betOn |-> bet.betOn]>>
                                        ELSE <<>>])
                ELSE NotReady("users"))

\* ------------------------------------------------------- POST /api/votes
\* the handler's payload check: 400 unless it holds
VotePayloadOk(p) == Truthy(p.voterName) /\ Includes(p.votedFor)

\* the document handed to Vote.create; the schema trims the name again
VoteDoc(p) == [voterName |-> Trim(Trim(ToStr(p.voterName))), votedFor |-> p.votedFor.s]

VoteOp(doc, pc) == [route |-> "postVotes", pc |-> pc, doc |-> doc]
BetOp(doc, pc) == [route |-> "postBets", pc |-> pc, doc |-> doc]
Ops == BagToSet(inflight)
Enqueue(op) == inflight' = inflight (+) SetToBag({op})
Dequeue(op) == inflight' = inflight (-) SetToBag({op})
Advance(op, next) == inflight' = (inflight (-) SetToBag({op})) (+) SetToBag({next})

\* what the handler settles before the store is involved: 503 at the gate, 400 on the
\* payload check, 500 when create() rejects the document, else the insert is sent
VoteArrival(p) ==
  IF ~RequireDB THEN NotReady("postVotes")
  ELSE IF ~VotePayloadOk(p) THEN Resp("postVotes", 400, [error |-> "Invalid payload"])
  ELSE IF ~VoteSchemaValid(VoteDoc(p))
  THEN Resp("postVotes", ErrorStatus(OtherError), [error |-> "Server error"])
  ELSE Forwarded("postVotes")

\* the request arrives
PostVotes(p) ==
  /\ listening
  /\ UNCHANGED <<dbState, listening, attempts, timers, reachable, retries, votes, bets>>
  /\ lastResp' = VoteArrival(p)
  /\ IF VoteArrival(p).status = 0
     THEN BagCardinality(inflight) < MaxInFlight /\ Enqueue(VoteOp(VoteDoc(p), "create"))
     ELSE UNCHANGED inflight

\* the store answers Vote.create: a failure, a duplicate key, or the record is inserted
VoteCreate(op, fault) ==
  /\ op \in Ops /\ op.route = "postVotes" /\ op.pc = "create"
  /\ UNCHANGED <<dbState, listening, attempts, timers, reachable, retries, bets>>
  /\ IF fault
     THEN /\ Dequeue(op)
          /\ lastResp' = Resp("postVotes", ErrorStatus(OtherError), [error |-> "Server error"])
          /\ UNCHANGED votes
     ELSE IF DuplicateVoter(op.doc.voterName)
     THEN /\ Dequeue(op)
          /\ lastResp' = Resp("postVotes", ErrorStatus(DuplicateKey), [error |-> "Already voted"])
          /\ UNCHANGED votes
     ELSE /\ votes' = votes \cup {VoteRecord(op.doc)}
          /\ Advance(op, VoteOp(op.doc, "totals"))
          /\ lastResp' = NoResp

\* the store answers getVoteTotals() after the insert: 201 with the totals, or 500
VoteTotals(op, fault) ==
  /\ op \in Ops /\ op.route = "postVotes" /\ op.pc = "totals"
  /\ UNCHANGED <<dbState, listening, attempts, timers, reachable, retries, votes, bets>>
  /\ Dequeue(op)
  /\ lastResp' = IF fault
                 THEN Resp("postVotes", ErrorStatus(OtherError), [error |-> "Server error"])
                 ELSE Resp("postVotes", 201, [ok |-> TRUE, totals |-> getVoteTotals])

\* ------------------------------------------------------- POST /api/bets
BetPayloadOk_nonNegative(p) ==
  /\ Truthy(p.betterName)
  /\ Includes(p.betOn)
  /\ ToNumber(p.amount).t = "number" /\ ToNumber(p.amount).n >= 0
\* the handler's payload check: 400 unless it holds
BetPayloadOk(p) ==
  /\ Truthy(p.betterName)
  /\ Includes(p.betOn)
  /\ GreaterThanZero(ToNumber(p.amount))

\* the document handed to Bet.create
BetDoc(p) ==
  [betterName |-> Trim(Trim(ToStr(p.betterName))), betOn |-> p.betOn.s,
   amount |-> ToNumber(p.amount).n]

BetArrival(p) ==
  IF ~RequireDB THEN NotReady("postBets")
  ELSE IF ~BetPayloadOk(p) THEN Resp("postBets", 400, [error |-> "Invalid payload"])
  ELSE IF ~BetSchemaValid(BetDoc(p))
  THEN Resp("postBets", ErrorStatus(OtherError), [error |-> "Server error"])
  ELSE Forwarded("postBets")

PostBets(p) ==
  /\ listening
  /\ UNCHANGED <<dbState, listening, attempts, timers, reachable, retries, votes, bets>>
  /\ lastResp' = BetArrival(p)
  /\ IF BetArrival(p).status = 0
     THEN BagCardinality(inflight) < MaxInFlight /\ Enqueue(BetOp(BetDoc(p), "create"))
     ELSE UNCHANGED inflight

BetCreate(op, fault) ==
  /\ op \in Ops /\ op.route = "postBets" /\ op.pc = "create"
  /\ UNCHANGED <<dbState, listening, attempts, timers, reachable, retries, votes>>
  /\ IF fault
     THEN /\ Dequeue(op)
          /\ lastResp' = Resp("postBets", ErrorStatus(OtherError), [error |-> "Server error"])
          /\ UNCHANGED bets
     ELSE IF DuplicateBetter(op.doc.betterName)
     THEN /\ Dequeue(op)
          /\ lastResp' = Resp("postBets", ErrorStatus(DuplicateKey), [error |-> "Already placed bet"])
          /\ UNCHANGED bets
     ELSE /\ bets' = bets \cup {BetRecord(op.doc)}
          /\ Advance(op, BetOp(op.doc, "totals"))
          /\ lastResp' = NoResp

BetTotals(op, fault) ==
  /\ op \in Ops /\ op.route = "postBets" /\ op.pc = "totals"
  /\ UNCHANGED <<dbState, listening, attempts, timers, reachable, retries, votes, bets>>
  /\ Dequeue(op)
  /\ lastResp' = IF fault
                 THEN Resp("postBets", ErrorStatus(OtherError), [error |-> "Server error"])
                 ELSE Resp("postBets", 201, [ok |-> TRUE, totals |-> getBetTotals])

\* ------------------------------------------------------- specifications
Connection ==
  \/ Startup
  \/ \E b \in BagToSet(attempts) : ConnectOk(b)
  \/ \E b \in BagToSet(attempts) : ConnectFail(b)
  \/ \E t \in BagToSet(timers) : TimerFire(t)
  \/ EnvChange

Arrivals ==
  \/ Health
  \/ GetVoteTotals
  \/ GetBetTotals
  \/ \E q \in LimitInputs : GetVotesRecent(q)
  \/ \E q \in LimitInputs : GetBetsRecent(q)
  \/ \E n \in UserInputs : GetUser(n)
  \/ \E p \in VotePayloads : PostVotes(p)
  \/ \E p \in BetPayloads : PostBets(p)

VoteWrites ==
  \/ \E p \in VotePayloads : PostVotes(p)
  \/ \E op \in Ops, fault \in BOOLEAN : VoteCreate(op, fault)
  \/ \E op \in Ops, fault \in BOOLEAN : VoteTotals(op, fault)

BetWrites ==
  \/ \E p \in BetPayloads : PostBets(p)
  \/ \E op \in Ops, fault \in BOOLEAN : BetCreate(op, fault)
  \/ \E op \in Ops, fault \in BOOLEAN : BetTotals(op, fault)

\* the write paths: connection, both POST handlers and the totals reads
Next == Connection \/ GetVoteTotals \/ GetBetTotals \/ VoteWrites \/ BetWrites
Spec == Init /\ [][Next]_vars

\* the vote path alone
NextVotes == Connection \/ GetVoteTotals \/ VoteWrites
SpecVotes == Init /\ [][NextVotes]_vars

\* the bet path alone
NextBets == Connection \/ GetBetTotals \/ BetWrites
SpecBets == Init /\ [][NextBets]_vars

\* the gate: connection and the arrival of a request at every endpoint
NextGate == Connection \/ Arrivals
SpecGate == Init /\ [][NextGate]_vars

\* the connection loop alone, under the scheduling the event loop gives it
NextConn == Connection \/ Health \/ GetVoteTotals \/ GetBetTotals
SpecConn ==
  /\ Init /\ [][NextConn]_vars
  /\ WF_vars(Startup)
  /\ WF_vars(\E b \in BagToSet(attempts) : ConnectOk(b))
  /\ WF_vars(\E b \in BagToSet(attempts) : ConnectFail(b))
  /\ WF_vars(\E t \in BagToSet(timers) : TimerFire(t))

\* ------------------------------------------------------- properties
DataRoutes ==
  {"voteTotals", "betTotals", "votesRecent", "betsRecent", "users", "postVotes", "postBets"}
VoteOps == {op \in Ops : op.route = "postVotes"}
BetOps == {op \in Ops : op.route = "postBets"}
VoterTaken(name) == \E v \in votes : v.voterName = name
BetterTaken(name) == \E b \in bets : b.betterName = name
VotesFor(S, o) == Cardinality({v \in S : v.votedFor = o})
\* the payloads with a non-empty name, one of the two options and, for a bet, an
\* amount that is a number greater than 0 once coerced
CheckedVotePayloads ==
  {q : q \in {p \in VotePayloads :
     Truthy(p.voterName) /\ p.votedFor \in {Str(player1), Str(player2)}}}
CheckedBetPayloads ==
  {q : q \in {p \in BetPayloads :
     /\ Truthy(p.betterName) /\ p.betOn \in {Str(player1), Str(player2)}
     /\ GreaterThanZero(ToNumber(p.amount))}}

\* C1: whatever the interleaving of POST /api/votes and POST /api/bets requests, the
\* store holds at most one Vote per trimmed voterName and at most one Bet per trimmed
\* betterName, and no stored record is ever changed or removed.
C1_OnePerName ==
  /\ [](/\ \A v, w \in votes : Trim(v.voterName) = Trim(w.voterName) => v = w
        /\ \A b, c \in bets : Trim(b.betterName) = Trim(c.betterName) => b = c)
  /\ [][votes \subseteq votes' /\ bets \subseteq bets']_vars
\* a vote is stored while a concurrent request with the same name awaits its insert,
\* and a bet is stored
C1_Witness ==
  /\ \E o1, o2 \in VoteOps :
       o1.pc = "totals" /\ o2.pc = "create" /\ o1.doc.voterName = o2.doc.voterName
  /\ bets # {}

\* C2 as stated: with the database ready, every POST whose trimmed name already has a
\* record is answered 409 and nothing else, and the store is left as it was.
C2_AnyPayload ==
  [][/\ lastResp'.route = "postVotes" /\ RequireDB =>
         \A p \in VotePayloads :
           VoterTaken(Trim(ToStr(p.voterName))) /\ PostVotes(p)
             => lastResp'.status \in {0, 409}
     /\ lastResp'.route = "postBets" /\ RequireDB =>
         \A p \in BetPayloads :
           BetterTaken(Trim(ToStr(p.betterName))) /\ PostBets(p)
             => lastResp'.status \in {0, 409}]_vars
\* C2 amended: with the database ready, a POST whose payload passes the handler's check
\* and whose trimmed name already has a record is never answered on arrival: it is
\* handed to the store, whose answer is relayed as 409 "Already voted" / "Already
\* placed bet"; the records stay as they were.
C2_DuplicateRejected ==
  /\ [](RequireDB =>
         /\ \A p \in CheckedVotePayloads :
              VoterTaken(Trim(ToStr(p.voterName))) => VoteArrival(p) = Forwarded("postVotes")
         /\ \A p \in CheckedBetPayloads :
              BetterTaken(Trim(ToStr(p.betterName))) => BetArrival(p) = Forwarded("postBets"))
  /\ [][
     /\ \A op \in VoteOps :
          VoterTaken(op.doc.voterName) /\ VoteCreate(op, FALSE)
          => /\ lastResp' = Resp("postVotes", 409, [error |-> "Already voted"])
             /\ votes' = votes /\ bets' = bets
     /\ \A op \in BetOps :
          BetterTaken(op.doc.betterName) /\ BetCreate(op, FALSE)
          => /\ lastResp' = Resp("postBets", 409, [error |-> "Already placed bet"])
             /\ votes' = votes /\ bets' = bets]_vars
\* a second vote for a stored name was just answered 409, a bet being stored too
C2_Witness ==
  /\ lastResp = Resp("postVotes", 409, [error |-> "Already voted"])
  /\ votes # {} /\ bets # {}

\* C3: with the database ready and the store answering, a valid vote payload with an
\* unused name is stored and answered 201; the insert raises the count getVoteTotals
\* reports for the chosen option by exactly one and leaves the other count alone; and
\* GET /api/votes/totals always reports the number of stored votes per option.
C3_VoteCounted ==
  /\ [](RequireDB =>
         \A p \in CheckedVotePayloads :
           Trim(ToStr(p.voterName)) # <<>> => VoteArrival(p) = Forwarded("postVotes"))
  /\ [][
     /\ \A op \in VoteOps :
          VoteCreate(op, FALSE) /\ ~VoterTaken(op.doc.voterName)
          => /\ VoteOp(op.doc, "totals") \in BagToSet(inflight')
             /\ getVoteTotals'.player1Votes =
                  getVoteTotals.player1Votes + (IF op.doc.votedFor = player1 THEN 1 ELSE 0)
             /\ getVoteTotals'.player2Votes =
                  getVoteTotals.player2Votes + (IF op.doc.votedFor = player2 THEN 1 ELSE 0)
     /\ \A op \in VoteOps :
          VoteTotals(op, FALSE)
          => /\ lastResp'.status = 201
             /\ lastResp'.body.totals =
                  [player1Votes |-> VotesFor(votes, player1),
                   player2Votes |-> VotesFor(votes, player2)]
     /\ GetVoteTotals /\ RequireDB
          => lastResp'.body = [player1Votes |-> VotesFor(votes, player1),
                               player2Votes |-> VotesFor(votes, player2)]]_vars
\* a vote was answered 201 with both options counted once
C3_Witness ==
  /\ lastResp.route = "postVotes" /\ lastResp.status = 201
  /\ lastResp.body.totals = [player1Votes |-> 1, player2Votes |-> 1]

\* what C4 calls an amount that is less than or equal to 0 or not a number
NotPositiveNumber(a) ==
  \/ a.t \in {"undefined", "null", "boolean", "array", "object"}
  \/ a.t = "number" /\ a.n <= 0
  \/ a.t = "string" /\ ~GreaterThanZero(StrToNumber(a.s))
\* C4 as stated: a bet whose amount is <= 0 or not a number (missing, null, boolean,
\* non-numeric string, array, object) is answered 400 and no insert is sent.
C4_NonNumberRejected ==
  [][lastResp'.route = "postBets" =>
       \A p \in BetPayloads :
         RequireDB /\ NotPositiveNumber(p.amount) /\ PostBets(p)
           => lastResp'.status = 400 /\ inflight' = inflight]_vars
\* C4 amended: a bet whose amount does not coerce, by Number(), to a number greater
\* than 0 is answered 400 and no insert is sent; every stored Bet has an amount > 0.
C4_NonPositiveRejected ==
  /\ [](\A b \in bets : b.amount > 0)
  /\ [](\A op \in BetOps : op.doc.amount > 0)
  /\ [](RequireDB =>
         \A p \in BetPayloads :
           ~(ToNumber(p.amount).t = "number" /\ ToNumber(p.amount).n > 0)
             => BetArrival(p) = Resp("postBets", 400, [error |-> "Invalid payload"]))
  /\ [][lastResp' # lastResp /\ lastResp'.route = "postBets" /\ lastResp'.status = 400
         => inflight' = inflight /\ bets' = bets]_vars
\* a bet was just answered 400 while a bet whose amount was sent as true is stored as 1
C4_Witness ==
  /\ lastResp = Resp("postBets", 400, [error |-> "Invalid payload"])
  /\ \E b \in bets : b.amount = 1

\* C5: with the database ready and the store answering, POST /api/votes answers 400
\* exactly for the payloads whose voterName is empty (also once trimmed) or whose
\* votedFor is not "player1" or "player2"; every other payload gets 201 or 409, never 500.
C5_InvalidIs400 ==
  [][/\ lastResp'.route = "postVotes" /\ RequireDB =>
         \A p \in VotePayloads :
           PostVotes(p)
             => IF \/ ~Truthy(p.voterName)
                   \/ Trim(ToStr(p.voterName)) = <<>>
                   \/ p.votedFor \notin {Str(player1), Str(player2)}
                THEN lastResp'.status = 400
                ELSE lastResp'.status \notin {400, 500}
     /\ \A op \in VoteOps :
          /\ VoteCreate(op, FALSE) => lastResp'.status \in {0, 409}
          /\ VoteTotals(op, FALSE) => lastResp'.status = 201]_vars

\* C6: while the status is not "ok", every request to a data-dependent endpoint is
\* answered 503 carrying the current state, whose status is "connecting" or "error",
\* and neither reads nor writes the store; GET /api/health is answered 200 in every state.
C6_Gated ==
  /\ [](lastResp.status = 503 => lastResp.body.db.status \in {"connecting", "error"})
  /\ [][dbState.status # "ok" /\ lastResp' # lastResp =>
         /\ \/ lastResp'.route = "health"
            \/ lastResp'.route \in DataRoutes /\ lastResp' = NotReady(lastResp'.route)
         /\ inflight' = inflight /\ votes' = votes /\ bets' = bets]_vars
  /\ [][lastResp' # lastResp /\ lastResp'.route = "health" =>
         lastResp' = Resp("health", 200, [ok |-> TRUE, db |-> dbState])]_vars
\* a bet was posted after a failed connection attempt and answered 503
C6_Witness ==
  /\ lastResp.route = "postBets" /\ lastResp.status = 503
  /\ lastResp.body.db.status = "error"
  /\ dbState.status = "error"

\* the limit C7 expects for a query value
ClampedLimit(q) ==
  LET n == ParseInt(q)
  IN IF n = NaN \/ n.n < 1 THEN 100 ELSE IF n.n > 500 THEN 500 ELSE n.n
\* C7: for every value of the limit query parameter, the limit handed to the store by
\* the recent listings lies in 1..500: 100 when absent or invalid, the parameter when
\* in 1..500, 500 when larger.
C7_LimitInRange ==
  /\ [](lastResp.route \in {"votesRecent", "betsRecent"} /\ lastResp.status = 200
          => lastResp.body.limit \in 1..500)
  /\ [][\A q \in LimitInputs :
          RequireDB /\ (GetVotesRecent(q) \/ GetBetsRecent(q))
          => lastResp'.body.limit = ClampedLimit(q)]_vars

\* C8: the status starts at "init"; it changes only along init -> connecting,
\* connecting -> ok, connecting -> error, error -> connecting; only connectMongo writes
\* the record; at most one attempt or retry timer is outstanding; "ok" is final.
C8_StatusMachine ==
  /\ dbState.status = "init"
  /\ [][dbState'.status # dbState.status =>
         <<dbState.status, dbState'.status>> \in
           {<<"init", "connecting">>, <<"connecting", "ok">>,
            <<"connecting", "error">>, <<"error", "connecting">>}]_vars
  /\ [][dbState' # dbState =>
         \/ Startup
         \/ \E b \in BagToSet(attempts) : ConnectOk(b) \/ ConnectFail(b)
         \/ \E t \in BagToSet(timers) : TimerFire(t)]_vars
  /\ [](BagCardinality(attempts) + BagCardinality(timers) <= 1)
  /\ [][dbState.status = "ok" => dbState' = dbState]_vars
\* the second retry is under way
C8_Witness == dbState.status = "connecting" /\ retries = 2

\* the wait C9 expects before the retry that follows the (n+1)-th failure in a row
ExpectedWait(n) == MathMin(5000 * 2^n, 60000)
\* C9: every failed attempt arms exactly one timer, whose firing starts exactly one
\* attempt; the waits are 5000, 10000, 20000, 40000, 60000, 60000, ... and never exceed
\* 60000; if the store is reachable from some point on, the status becomes "ok".
C9_Backoff ==
  /\ [][\A b \in BagToSet(attempts) :
          ConnectFail(b)
          => /\ BagCardinality(attempts') = 0
             /\ timers' = SetToBag({[delay |-> ExpectedWait(retries),
                                      next |-> ExpectedWait(retries + 1)]})]_vars
  /\ [][\A t \in BagToSet(timers) :
          TimerFire(t)
          => timers' = EmptyBag /\ attempts' = SetToBag({t.next})]_vars
  /\ [](\A t \in BagToSet(timers) : t.delay <= 60000)
  /\ (<>[]reachable => <>(dbState.status = "ok"))
\* the wait has reached its ceiling after five failures in a row
C9_Witness ==
  /\ retries >= 5
  /\ timers = SetToBag({[delay |-> 60000, next |-> 60000]})

\* C10: a POST answered with a status other than 201 has added no record, and a POST
\* that has added a record is answered 201, also when the totals read fails.
C10_PersistedIff201 ==
  [][/\ \A op \in Ops, fault \in BOOLEAN :
          VoteTotals(op, fault) \/ BetTotals(op, fault) => lastResp'.status = 201
     /\ lastResp'.status \in {400, 409, 500, 503} /\ lastResp' # lastResp
          => votes' = votes /\ bets' = bets]_vars

====
